---- MODULE Spec2Model ----
(***************************************************************************)
(* A model of the Juggl graph session (src/src/viz/visualization.ts) over  *)
(* the core data store (src/unnamed/part_000): the element pool of the     *)
(* graph, mergeToGraph, expand, removeNodes, condensedLayout and the       *)
(* recomputation pass onGraphChanged, with the order of the events they    *)
(* trigger; and of the plugin's openGlobalGraph (src/src/main.ts).         *)
(*                                                                         *)
(* Strings that the code builds by concatenation (element ids, paths) are  *)
(* sequences of tokens, so that two different concatenations can collide   *)
(* exactly when the code's strings would.                                  *)
(***************************************************************************)
EXTENDS Integers, Sequences, FiniteSets, TLC

\* ------------------------------------------------------------------ bounds

\* The number of top-level calls (mergeToGraph, expand, removeNodes,
\* condensedLayout) one behaviour issues.
MaxOps == 2

\* The longest element list handed to one mergeToGraph call.
MaxBatch == 2

\* The largest frontier handed to one expand call.
MaxFrontier == 1

\* The depth at which the recursion of getClosestIndirectNeighbors is given
\* up as exhausting the call stack.
MaxDepth == 4

\* The number of times one document references another.
MaxRefs == 11

\* How far the number of files of the vault lies from the ceiling of the
\* whole-corpus view, at most.
FilesSpread == 2

\* ------------------------------------------------------------------ corpus

A == <<"A">>
B == <<"B">>
C == <<"C">>
\* The fourth document is named B1: the name of B followed by a digit.
D == <<"B", "1">>

\* The documents (files) of the vault, by name.
Docs == {A, B, C, D}

\* The order in which the vault enumerates its files.
DocOrder == <<A, B, C, D>>

\* The references of every document, in document order.
Corpora ==
  << [d \in Docs |-> IF d = A THEN <<B, C>> ELSE IF d = B THEN <<C>> ELSE <<>>],
     [d \in Docs |-> IF d = A THEN <<B, C>> ELSE IF d = D THEN <<A>> ELSE <<>>],
     [d \in Docs |-> IF d = A THEN <<B, B>> ELSE IF d = B THEN <<A, D>>
                     ELSE IF d = C THEN <<C>> ELSE <<>>] >>

Range(s) == {s[i] : i \in DOMAIN s}

\* A document that references B many times and then B1 once.
RepeatedRefs ==
  [d \in Docs |-> IF d = A THEN [i \in 1..MaxRefs |-> B] \o <<D>> ELSE <<>>]

\* The corpora connectNodes is called on.
StoreCorpora == Range(Corpora) \cup {RepeatedRefs}

\* ------------------------------------------------------------------ ids

Digit == <<"0", "1", "2", "3", "4", "5", "6", "7", "8", "9">>

RECURSIVE Str(_)
\* The decimal rendering of a number inside a template string.
Str(k) == IF k < 10 THEN <<Digit[k + 1]>>
          ELSE Str(k \div 10) \o <<Digit[(k % 10) + 1]>>

\* VizId.toId: the id of the node of a name in the core store.
toId(name) == <<"core", ":">> \o name

\* `${srcId}->${otherId}` followed by the occurrence count.
EdgeIdOf(srcId, otherId, k) == srcId \o <<"->">> \o otherId \o Str(k)

NoId == <<>>
NoPath == <<>>

\* file.path of a document.
PathOf(d) == d \o <<".md">>

NodeIds == {toId(d) : d \in Docs}

\* The document a node id names (none for an id that is no document's).
DocOfId(id) == IF \E d \in Docs : toId(d) = id
               THEN CHOOSE d \in Docs : toId(d) = id ELSE NoId

\* ------------------------------------------------------------------ classes

CLASS_EXPANDED == "expanded"
CLASS_PROTECTED == "protected"
CLASS_PINNED == "pinned"
CLASS_FILTERED == "filtered"
CLASS_HARD_FILTERED == "hard-filtered"

\* The classes mergeToGraph carries over by name.
CLASSES == {CLASS_EXPANDED, CLASS_PROTECTED, CLASS_PINNED}

LocalClasses == {"local-0", "local-1"}
GlobalClasses == {"global-0", "global-1"}

\* el.startsWith('global-') || el.startsWith('local-')
IsGroupClass(c) == c \in LocalClasses \cup GlobalClasses

\* `${prefix}-${index}`
GroupClass(prefix, index) ==
  IF prefix = "local" THEN (IF index = 0 THEN "local-0" ELSE "local-1")
  ELSE (IF index = 0 THEN "global-0" ELSE "global-1")

\* ------------------------------------------------------------------ elements

\* An element definition, and an element of the graph: nodes and edges share
\* one id space.  Absent data keys are "" (-1 for numbers, <<>> for paths).
NoData == [name |-> <<>>, path |-> NoPath, tag |-> "", degree |-> -1,
           nameLength |-> -1, type |-> "", context |-> "-"]

DataKeys == DOMAIN NoData

NodeDef(id, classes, data) ==
  [group |-> "nodes", id |-> id, source |-> NoId, target |-> NoId,
   classes |-> classes, data |-> data]

EdgeDef(id, source, target, classes, data) ==
  [group |-> "edges", id |-> id, source |-> source, target |-> target,
   classes |-> classes, data |-> data]

\* ------------------------------------------------------------------ store

\* plugin.getClasses(file): the classes a file's node is created with.
getClasses(d) == IF d = B THEN {"note", "tag-x"} ELSE {"note"}

\* The path attribute the store gives the node of a file.
FilePathAttr(d) == PathOf(d)

nodeFromFile(d) ==
  NodeDef(toId(d), getClasses(d),
          [NoData EXCEPT !.name = d, !.path = FilePathAttr(d)])

\* getFile: the document of a node id, through getFirstLinkpathDest.
getFile(id) == DocOfId(id)

\* The files whose resolved links hold the path of d, in vault order.
getBacklinks(links, d) ==
  LET hit == SelectSeq(DocOrder, LAMBDA o : d \in Range(links[o]))
  IN  [i \in DOMAIN hit |-> nodeFromFile(hit[i])]

getNeighbourhood(links, id) ==
  LET d == getFile(id)
  IN  IF d = NoId THEN <<>>
      ELSE <<nodeFromFile(d)>>
             \o [i \in DOMAIN links[d] |-> nodeFromFile(links[d][i])]
             \o getBacklinks(links, d)

RECURSIVE Flatten(_)
Flatten(ss) == IF ss = <<>> THEN <<>> ELSE Head(ss) \o Flatten(Tail(ss))

\* Juggl.neighbourhood: the stores' neighbourhoods of the ids, concatenated.
neighbourhood(links, ids) ==
  Flatten([i \in DOMAIN ids |-> getNeighbourhood(links, ids[i])])

\* The references connectNodes walks: <<srcId, otherId>> for every reference
\* of every new node that has a file, in the order of the walk.
RefPairs(links, newNodes) ==
  Flatten([i \in DOMAIN newNodes |->
            LET d == getFile(newNodes[i])
            IN  IF d = NoId THEN <<>>
                ELSE [j \in DOMAIN links[d] |->
                        <<newNodes[i], toId(links[d][j])>>]])

EdgeKey(pair) == pair[1] \o <<"->">> \o pair[2]

\* One counter for all edge ids instead of one per edge id.
CounterAtShared(pairs, allNodes, i) ==
  Cardinality({j \in 1..i : pairs[j][2] \in allNodes})

\* counter[edgeId] after the walk has handled reference i.
CounterAt(pairs, allNodes, i) ==
  Cardinality({j \in 1..i : /\ pairs[j][2] \in allNodes
                            /\ EdgeKey(pairs[j]) = EdgeKey(pairs[i])})

\* ObsidianStore.connectNodes: one edge per reference of a new node whose
\* target is among allNodes.
connectNodes(links, allNodes, newNodes) ==
  LET pairs == RefPairs(links, newNodes)
      kept  == SelectSeq([i \in DOMAIN pairs |-> i],
                         LAMBDA i : pairs[i][2] \in allNodes)
  IN  [n \in DOMAIN kept |->
         LET p == pairs[kept[n]]
         IN  EdgeDef(EdgeKey(p) \o Str(CounterAt(pairs, allNodes, kept[n])),
                     p[1], p[2],
                     IF p[1] = p[2] THEN {"loop", "inline"} ELSE {"inline"},
                     [NoData EXCEPT !.context = "line"])]

\* Juggl.buildEdges: the stores' edges, concatenated.
buildEdges(links, allNodes, newNodes) == connectNodes(links, allNodes, newNodes)

\* The link index (dataview): page(path).file.outlinks / inlinks, as paths.
PageOutlinks(links, path) ==
  {PathOf(t) : t \in UNION {Range(links[d]) : d \in {x \in Docs : PathOf(x) = path}}}

PageInlinks(links, path) ==
  {PathOf(s) : s \in {x \in Docs : \E t \in Range(links[x]) : PathOf(t) = path}}

\* ------------------------------------------------------------------ graph

Nodes(E) == {e \in E : e.group = "nodes"}
Edges(E) == {e \in E : e.group = "edges"}
Ids(E) == {e.id : e \in E}

\* viz.$id(id): the elements of the graph with that id.
ById(E, id) == {e \in E : e.id = id}

\* eles.addClass / eles.removeClass on the elements with the given ids.
AddClass(E, ids, cs) ==
  {IF e.id \in ids THEN [e EXCEPT !.classes = @ \cup cs] ELSE e : e \in E}

RemoveClass(E, ids, cs) ==
  {IF e.id \in ids THEN [e EXCEPT !.classes = @ \ cs] ELSE e : e \in E}

\* ele.data(obj) replacing the whole data object.
DataReplace(old, new) == new

\* ele.data(obj): every key obj carries is set; id, source and target are
\* immutable and the keys obj does not carry stay.
DataSet(old, new) ==
  [k \in DataKeys |-> IF new[k] = NoData[k] THEN old[k] ELSE new[k]]

\* Addable without the check of an edge's ends.
AddableAnyEdge(E, n) == n.id \notin Ids(E)

\* An element definition that viz.add accepts into pool E: its id is new,
\* and an edge's source and target are in the pool.
Addable(E, n) ==
  /\ n.id \notin Ids(E)
  /\ n.group = "edges" => (n.source \in Ids(E) /\ n.target \in Ids(E))

RECURSIVE AddInOrder(_, _)
AddInOrder(E, list) ==
  IF list = <<>> THEN E
  ELSE AddInOrder(IF Addable(E, Head(list)) THEN E \cup {Head(list)} ELSE E,
                  Tail(list))

\* viz.add(list): the nodes of the list are restored before its edges; an
\* element that cannot be created is logged and skipped.
VizAdd(E, list) ==
  AddInOrder(E, SelectSeq(list, LAMBDA n : n.group = "nodes")
                  \o SelectSeq(list, LAMBDA n : n.group = "edges"))

\* A removal that leaves the edges of the removed nodes behind.
VizRemoveNodesOnly(E, ids) == {e \in E : e.id \notin ids}

\* nodes.remove(): the nodes go, and every edge connected to one of them.
VizRemove(E, ids) ==
  {e \in E : /\ e.id \notin ids
             /\ e.group = "edges" => (e.source \notin ids /\ e.target \notin ids)}

\* nodes.outgoers() in the place of nodes.neighborhood().
NeighborhoodOutgoers(E, ids) ==
  {e.target : e \in {x \in Edges(E) : x.source \in ids}}

\* nodes.neighborhood(): for every edge connected to one of the nodes, the
\* node at its other end (the node itself for a loop).
Neighborhood(E, ids) ==
  {e.target : e \in {x \in Edges(E) : x.source \in ids}}
    \cup {e.source : e \in {x \in Edges(E) : x.target \in ids}}

\* ------------------------------------------------------------------ filter

\* The queries of the model: "" matches every node, "class:c" the nodes that
\* carry class c.
Matches(query, n) ==
  CASE query = "" -> TRUE
    [] query = "class:tag-x" -> "tag-x" \in n.classes
    [] query = "class:note" -> "note" \in n.classes
    [] OTHER -> FALSE

\* filter(query, nodes): the ids of the nodes that match.
filter(query, E) == {n.id : n \in {x \in Nodes(E) : Matches(query, x)}}

\* searchFilter without the removal of filtered from all nodes first.
searchFilterNoClear(E, query) ==
  AddClass(E, Ids(Nodes(E)) \ filter(query, E), {CLASS_FILTERED})

\* Juggl.searchFilter
searchFilter(E, query) ==
  LET cleared == RemoveClass(E, Ids(Nodes(E)), {CLASS_FILTERED})
  IN  AddClass(cleared, Ids(Nodes(E)) \ filter(query, cleared), {CLASS_FILTERED})

RECURSIVE assignGroupsNoClear(_, _, _, _)
\* _assignGroups without the removal of the class from all nodes first.
assignGroupsNoClear(E, groups, prefix, i) ==
  IF i > Len(groups) THEN E
  ELSE assignGroupsNoClear(
         AddClass(E, filter(groups[i], E), {GroupClass(prefix, i - 1)}),
         groups, prefix, i + 1)

RECURSIVE assignGroups(_, _, _, _)
\* _assignGroups: group by group, in declared order, from index i on.
assignGroups(E, groups, prefix, i) ==
  IF i > Len(groups) THEN E
  ELSE LET clazz == GroupClass(prefix, i - 1)
           cleared == RemoveClass(E, Ids(Nodes(E)), {clazz})
       IN  assignGroups(AddClass(cleared, filter(groups[i], cleared), {clazz}),
                        groups, prefix, i + 1)

\* Juggl.assignStyleGroups
assignStyleGroups(E, localGroups, globalGroups) ==
  assignGroups(assignGroups(E, localGroups, "local", 1), globalGroups, "global", 1)

\* The class a typed or untyped edge contributes to its end nodes.
TypeOf(e) == IF e.data.type # "" THEN e.data.type ELSE "inline"

HasClasses(E, n) ==
  {"has-incoming-" \o TypeOf(e) : e \in {x \in Edges(E) : x.target = n.id}}
    \cup {"has-outgoing-" \o TypeOf(e) : e \in {x \in Edges(E) : x.source = n.id}}

\* node.degree(false): the connections of the node to edges that are no loops.
Degree(E, n) ==
  Cardinality({e \in Edges(E) : e.source = n.id /\ e.target # n.id})
    + Cardinality({e \in Edges(E) : e.target = n.id /\ e.source # n.id})

\* The per-node pass of onGraphChanged.
Recompute(E) ==
  {IF n.group = "nodes"
     THEN [n EXCEPT !.data = [@ EXCEPT !.degree = Degree(E, n),
                                       !.nameLength = Len(n.data.name)],
                    !.classes = @ \cup HasClasses(E, n)]
     ELSE n : n \in E}

\* Juggl.onGraphChanged: the graph it leaves.
onGraphChanged(E, query, localGroups, globalGroups) ==
  assignStyleGroups(searchFilter(Recompute(E), query), localGroups, globalGroups)

\* ------------------------------------------------------------------ settings

\* settings.styleGroups and plugin.settings.globalStyleGroups: the filters of
\* the style groups, in declared order.
LocalStyleGroups == <<"class:tag-x">>
GlobalStyleGroups == <<"class:note">>

\* ------------------------------------------------------------------ merge

\* extraClasses without the classes of CLASSES: only the group classes.
extraClassesGroupsOnly(g) == {c \in g.classes : IsGroupClass(c)}

\* The classes of a graph element that a merge re-applies on top of the
\* incoming ones.
extraClasses(g) ==
  {c \in g.classes : c \in CLASSES} \cup {c \in g.classes : IsGroupClass(c)}

\* MergeInto toggling the incoming classes instead of setting them.
MergeIntoToggle(g, n) ==
  [g EXCEPT !.classes = ((g.classes \ n.classes) \cup (n.classes \ g.classes))
                          \cup extraClasses(g),
            !.data = DataSet(g.data, n.data)]

\* MergeInto without the re-applied classes.
MergeIntoNoExtra(g, n) ==
  [g EXCEPT !.classes = n.classes, !.data = DataSet(g.data, n.data)]

\* The else branch of the loop of mergeToGraph: the element of the graph with
\* the id of n takes n's classes, its own extra classes, and n's data.
MergeInto(g, n) ==
  [g EXCEPT !.classes = n.classes \cup extraClasses(g),
            !.data = DataSet(g.data, n.data)]

\* Staged without the lookup of the id: every element is staged.
StagedAlways(E, n) == TRUE

\* Whether the loop of mergeToGraph stages n as an addition.
Staged(E, n) == ById(E, n.id) = {}

RECURSIVE MergeLoop(_, _, _)
\* elements.forEach of mergeToGraph: the graph and the staged additions after
\* the elements from the head of the list on are handled.
MergeLoop(E, elements, addElements) ==
  IF elements = <<>> THEN [elems |-> E, add |-> addElements]
  ELSE LET n == Head(elements)
       IN  IF Staged(E, n)
             THEN MergeLoop(E, Tail(elements), Append(addElements, n))
             ELSE MergeLoop({IF g.id = n.id THEN MergeInto(g, n) ELSE g : g \in E},
                            Tail(elements), addElements)

\* mergeToGraph taking the elements for the whole graph: the nodes they do
\* not name are removed first.
mergeToGraphSync(E, elements, triggerGraphChanged, query) ==
  LET named  == {elements[i].id : i \in DOMAIN elements}
      kept   == VizRemove(E, Ids(Nodes(E)) \ named)
      looped == MergeLoop(kept, elements, <<>>)
      added  == VizAdd(looped.elems, looped.add)
  IN  IF triggerGraphChanged
        THEN onGraphChanged(added, query, LocalStyleGroups, GlobalStyleGroups)
        ELSE added

\* Juggl.mergeToGraph: the graph it leaves.
mergeToGraph(E, elements, triggerGraphChanged, query) ==
  LET looped == MergeLoop(E, elements, <<>>)
      added  == VizAdd(looped.elems, looped.add)
  IN  IF triggerGraphChanged
        THEN onGraphChanged(added, query, LocalStyleGroups, GlobalStyleGroups)
        ELSE added

\* ------------------------------------------------------------------ what a call does, in order

\* An entry of the log of a call: a step of the code or an event it
\* triggers, by name.
Ev(name) == name

\* restartLayout, lines 550-562: the layout event and the start of a layout.
restartLayoutTrace == <<Ev("restartLayout")>>

\* onGraphChanged, lines 741-766.
onGraphChangedTrace(debounceLayout) ==
  <<Ev("onGraphChanged"), Ev("recompute"), Ev("elementsChange"),
    Ev("searchFilter")>>
    \o (IF debounceLayout THEN <<Ev("debouncedRestartLayout")>>
                           ELSE restartLayoutTrace)
    \o <<Ev("assignStyleGroups")>>

\* mergeToGraph with the recomputation pass inside the loop, once for every
\* element.
mergeToGraphTracePerElement(elements, triggerGraphChanged) ==
  Flatten([i \in DOMAIN elements |->
             <<Ev("element")>> \o (IF triggerGraphChanged
                                     THEN onGraphChangedTrace(FALSE) ELSE <<>>)])
    \o <<Ev("add")>>

\* mergeToGraph, lines 688-722: the elements are handled one by one, the
\* staged additions are committed, and then the pass runs if asked for.
mergeToGraphTrace(elements, triggerGraphChanged) ==
  [i \in DOMAIN elements |-> Ev("element")] \o <<Ev("add")>>
    \o (IF triggerGraphChanged THEN onGraphChangedTrace(FALSE) ELSE <<>>)

\* removeNodes, lines 510-523.
removeNodesTrace == <<Ev("remove")>> \o onGraphChangedTrace(TRUE)

\* The graph a pass on E has made when the entry at position k of its trace
\* is reached.
RECURSIVE onGraphChangedAt(_, _, _, _)
onGraphChangedAt(E, query, trace, k) ==
  IF k <= 1 THEN E
  ELSE LET G == onGraphChangedAt(E, query, trace, k - 1)
           done == trace[k - 1]
       IN  CASE done = Ev("recompute") -> Recompute(G)
             [] done = Ev("searchFilter") -> searchFilter(G, query)
             [] done = Ev("assignStyleGroups") ->
                  assignStyleGroups(G, LocalStyleGroups, GlobalStyleGroups)
             [] OTHER -> G

\* ------------------------------------------------------------------ removal

\* Juggl.getExpanded
getExpanded(E) == {n.id : n \in {x \in Nodes(E) : CLASS_EXPANDED \in x.classes}}

\* Juggl.removeNodes: the graph it leaves.
removeNodes(E, ids, query) ==
  LET untagged == RemoveClass(E, getExpanded(E) \cap Neighborhood(E, ids),
                              {CLASS_EXPANDED})
  IN  onGraphChanged(VizRemove(untagged, ids), query,
                     LocalStyleGroups, GlobalStyleGroups)

\* ------------------------------------------------------------------ condensation

\* The ':visible' selector: the stylesheet hides filtered and hard-filtered
\* elements, and an edge shows only between two visible nodes.
VisibleNode(n) == n.classes \cap {CLASS_FILTERED, CLASS_HARD_FILTERED} = {}

VisibleNodes(E) == {n \in Nodes(E) : VisibleNode(n)}

VisibleEdges(E) ==
  {e \in Edges(E) : /\ VisibleNode(e)
                    /\ e.source \in Ids(VisibleNodes(E))
                    /\ e.target \in Ids(VisibleNodes(E))}

\* node.connectedEdges(':visible')
ConnectedVisibleEdges(E, n) ==
  {e \in VisibleEdges(E) : e.source = n.id \/ e.target = n.id}

\* A collection in the order of the vault's documents.
AsSeq(S) ==
  LET ordered == SelectSeq(DocOrder, LAMBDA d : \E n \in S : n.id = toId(d))
  IN  [i \in DOMAIN ordered |-> CHOOSE n \in S : n.id = toId(ordered[i])]

Paths(S) == {n.data.path : n \in S}

\* getClosestIndirectNeighbors without the walk through the removed nodes.
getClosestDirectNeighbors(links, root, visibleNodes, deletedNodes, marks, depth) ==
  [over |-> FALSE,
   nodes |-> IF root.data.path = NoPath THEN {}
             ELSE {n \in visibleNodes :
                     n.data.path \in PageInlinks(links, root.data.path)}]

RECURSIVE getClosestIndirectNeighbors(_, _, _, _, _, _)
RECURSIVE IndirectLoop(_, _, _, _, _, _, _)

\* for (let deletedNeighbor of deletedNeighbors): found is
\* inlinksIndirectNeighbors so far; over tells that the call stack ran out.
IndirectLoop(links, todo, found, visibleNodes, deletedNodes, marks, depth) ==
  IF todo = <<>> THEN [over |-> FALSE, nodes |-> found]
  ELSE IF Head(todo).data.path \in marks
    THEN IndirectLoop(links, Tail(todo), found, visibleNodes, deletedNodes,
                      marks, depth)
    ELSE LET sub == getClosestIndirectNeighbors(links, Head(todo), visibleNodes,
                                                deletedNodes, Paths(found),
                                                depth + 1)
         IN  IF sub.over THEN sub
             ELSE IndirectLoop(links, Tail(todo), found \cup sub.nodes,
                               visibleNodes, deletedNodes, marks, depth)

\* Juggl.getClosestIndirectNeighbors
getClosestIndirectNeighbors(links, root, visibleNodes, deletedNodes, marks, depth) ==
  IF depth > MaxDepth THEN [over |-> TRUE, nodes |-> {}]
  ELSE IF root.data.path = NoPath THEN [over |-> FALSE, nodes |-> {}]
  ELSE LET inlinks == PageInlinks(links, root.data.path)
           near == {n \in visibleNodes : n.data.path \in inlinks}
           gone == {n \in deletedNodes : n.data.path \in inlinks}
       IN  IndirectLoop(links, AsSeq(gone), near, visibleNodes, deletedNodes,
                        marks, depth)

\* The edge condensedLayout builds from an indirect neighbour to an orphan.
ExtraEdge(srcId, otherId) ==
  EdgeDef(srcId \o <<"->">> \o otherId \o <<"1">>, srcId, otherId, {"inline"},
          [NoData EXCEPT !.context = ""])

\* NodesToRemove with the comparison off by one: two in-links are too few.
NodesToRemoveUpToTwo(E, count) ==
  {n \in VisibleNodes(E) :
     /\ n.data.path # NoPath
     /\ \E d \in Docs : /\ PathOf(d) = n.data.path
                        /\ count[d] >= 0
                        /\ count[d] <= 2}

\* The nodes condensedLayout removes: the visible nodes with a path whose
\* page has both counts and fewer than two visible in-links.
NodesToRemove(E, count) ==
  {n \in VisibleNodes(E) :
     /\ n.data.path # NoPath
     /\ \E d \in Docs : /\ PathOf(d) = n.data.path
                        /\ count[d] >= 0
                        /\ count[d] < 2}

\* The orphans of the graph after the removal.
Orphans(E) == {n \in VisibleNodes(E) : ConnectedVisibleEdges(E, n) = {}}

\* visibleNodes.forEach of condensedLayout: the extra edges of the orphans in
\* todo, or the exhaustion of the call stack.
RECURSIVE ExtraEdges(_, _, _, _, _)
ExtraEdges(links, todo, visibleNodes, deletedNodes, acc) ==
  IF todo = <<>> THEN [over |-> FALSE, edges |-> acc]
  ELSE LET node == Head(todo)
           got == getClosestIndirectNeighbors(links, node, visibleNodes,
                                              deletedNodes, {}, 1)
           from == AsSeq(got.nodes)
       IN  IF got.over THEN [over |-> TRUE, edges |-> acc]
           ELSE ExtraEdges(links, Tail(todo), visibleNodes, deletedNodes,
                           acc \o [i \in DOMAIN from |->
                                     ExtraEdge(from[i].id, node.id)])

\* ------------------------------------------------------------------ state

VARIABLES
  links,       \* the references of the vault's documents
  elems,       \* the elements of the graph (viz)
  batchDepth,  \* viz.startBatch() calls not yet ended
  filterQuery, \* settings.filter
  pc,          \* "idle", where the expand in flight is suspended, or
               \* "returned" while the caller holds the outcome of a call
  x,           \* the frame of the expand in flight
  last,        \* the call that just returned or threw, and how
  ops,         \* the calls issued so far
  app          \* the plugin's side: the files of the vault, the warning
               \* modal and the whole-corpus view of the leaf

vars == <<links, elems, batchDepth, filterQuery, pc, x, last, ops, app>>

\* The values of page.VizInLinksCount (-1: undefined).
Counts == {-1, 1, 2}

NoCount == [d \in Docs |-> -1]

\* The link index at the time of a call: there ("ok"), the dataview plugin
\* not installed ("missing"), installed with no api yet ("noapi").
DvStates == {"ok", "missing", "noapi"}

\* The record of a call: what was called, with which arguments, on which
\* graph (pre) and at which batch depth (depth), whether it returned ("ok",
\* "null") or threw ("error"), and what it did and triggered on the way, in
\* order (log), with the collection its expand event carried (carried);
\* again marks the repetition of the call before it, cut holds
\* the nodes a removeNodes call took out while the call was suspended.
NoCall == [op |-> "none", result |-> "ok", ids |-> {}, els |-> <<>>,
           batch |-> FALSE, trig |-> FALSE, inL |-> FALSE, outL |-> FALSE,
           dv |-> "ok", count |-> NoCount, query |-> "", pre |-> {},
           depth |-> 0, log |-> <<>>, carried |-> {}, again |-> FALSE,
           cut |-> {}]

\* The frame of an expand: the call, the nodes handed to buildEdges (nodes)
\* and the nodes of the graph when it was called (all).
NoFrame == NoCall @@ [all |-> {}, nodes |-> <<>>]

\* No modal is open, no whole-corpus view is in the leaf.
NoView == -1

\* The plugin's side while a session runs: the vault holds the documents.
NoApp == [files |-> Cardinality(Docs), modal |-> NoView, leaf |-> NoView]

\* The documents the session is opened on (initialNodes).
InitialDocs == <<A>>

\* Juggl.onload with initialNodes and expandInitial off: the nodes of the
\* documents, protected, the edges among them, one recomputation pass.
InitialGraph(l) ==
  LET nodes == {nodeFromFile(InitialDocs[i]) : i \in DOMAIN InitialDocs}
      tagged == AddClass(nodes, Ids(nodes), {CLASS_PROTECTED})
      ids == [i \in DOMAIN InitialDocs |-> toId(InitialDocs[i])]
      edges == buildEdges(l, Ids(tagged), ids)
  IN  onGraphChanged(VizAdd(tagged, edges), "", LocalStyleGroups,
                     GlobalStyleGroups)

Init ==
  /\ links \in Range(Corpora)
  /\ elems = InitialGraph(links)
  /\ batchDepth = 0
  /\ filterQuery = ""
  /\ pc = "idle"
  /\ x = NoFrame
  /\ last = NoCall
  /\ ops = 0
  /\ app = NoApp

\* ------------------------------------------------------------------ inputs

\* A node of B that is pinned and carries no file class.
PinnedB ==
  NodeDef(toId(B), {CLASS_PINNED}, [NoData EXCEPT !.name = B, !.path = PathOf(B)])

\* A node of D that has no path.
BareD == NodeDef(toId(D), {}, [NoData EXCEPT !.name = D])

\* The first edge from A to B, as the store builds it.
EdgeAB ==
  EdgeDef(EdgeIdOf(toId(A), toId(B), 1), toId(A), toId(B), {"inline"},
          [NoData EXCEPT !.context = "line"])

\* The element definitions callers hand to mergeToGraph.
ElementPool == {nodeFromFile(A), nodeFromFile(B), PinnedB, BareD, EdgeAB}

Batches == UNION {[1..k -> ElementPool] : k \in 1..MaxBatch}

\* ------------------------------------------------------------------ actions

\* A call of mergeToGraph(elements, batch, triggerGraphChanged).  With
\* batch = true the call opens a batch at line 690 and ends it at line 719,
\* so either value of batch leaves the same graph and the same batchDepth.
MergeToGraph ==
  /\ pc = "idle"
  /\ ops < MaxOps
  /\ \E elements \in Batches, trig \in BOOLEAN :
       /\ elems' = mergeToGraph(elems, elements, trig, filterQuery)
       /\ last' = [NoCall EXCEPT !.op = "mergeToGraph", !.els = elements,
                                  !.trig = trig, !.pre = elems,
                                  !.depth = batchDepth,
                                  !.log = mergeToGraphTrace(elements, trig)]
  /\ pc' = "returned"
  /\ ops' = ops + 1
  /\ UNCHANGED <<app, links, batchDepth, filterQuery, x>>

\* A call of removeNodes(nodes).
RemoveNodes ==
  /\ pc = "idle"
  /\ ops < MaxOps
  /\ \E T \in SUBSET Ids(Nodes(elems)) :
       /\ T # {}
       /\ elems' = removeNodes(elems, T, filterQuery)
       /\ last' = [NoCall EXCEPT !.op = "removeNodes", !.ids = T,
                                  !.pre = elems, !.depth = batchDepth,
                                  !.log = removeNodesTrace]
  /\ pc' = "returned"
  /\ ops' = ops + 1
  /\ UNCHANGED <<app, links, batchDepth, filterQuery, x>>

\* The frontier in the order of the collection.
FrontierSeq(F) ==
  LET ordered == SelectSeq(DocOrder, LAMBDA d : toId(d) \in F)
  IN  [i \in DOMAIN ordered |-> toId(ordered[i])]

\* The ids of a list of definitions, each once, in order of first occurrence.
RECURSIVE IdsInOrder(_, _)
IdsInOrder(list, seen) ==
  IF list = <<>> THEN <<>>
  ELSE IF Head(list).id \in seen THEN IdsInOrder(Tail(list), seen)
  ELSE <<Head(list).id>> \o IdsInOrder(Tail(list), seen \cup {Head(list).id})

\* The call as the frame of the expand in flight records it.
ExpandCallOf(f, result) ==
  [k \in DOMAIN NoCall |-> IF k = "result" THEN result ELSE f[k]]

\* EntryOutcome without the check of the frontier's length.
EntryOutcomeNoEmptyCheck(F, avail) ==
  IF avail = "missing" THEN "error" ELSE "await"

\* expand, lines 424-436, before the first await: the empty frontier returns
\* null, the lookup of a link index that is not installed throws, and
\* otherwise the neighbourhood is awaited.
EntryOutcome(F, avail) ==
  IF F = {} THEN "null"
  ELSE IF avail = "missing" THEN "error"
  ELSE "await"

\* expand, lines 424-438: unless the frontier is empty the batch opens and
\* the frontier is tagged before the link index is looked up.
ExpandCall ==
  /\ pc = "idle"
  /\ ops < MaxOps
  /\ \E F \in SUBSET Ids(Nodes(elems)), batch \in BOOLEAN, trig \in BOOLEAN,
        inL \in BOOLEAN, outL \in BOOLEAN, avail \in DvStates :
       LET f == [NoFrame EXCEPT !.op = "expand", !.ids = F, !.batch = batch,
                                !.trig = trig, !.inL = inL, !.outL = outL,
                                !.dv = avail, !.pre = elems,
                                !.depth = batchDepth]
           outcome == EntryOutcome(F, avail)
       IN  /\ Cardinality(F) <= MaxFrontier
           /\ IF outcome = "null"
                THEN /\ last' = ExpandCallOf(f, "null")
                     /\ pc' = "returned"
                     /\ UNCHANGED <<elems, batchDepth, x>>
                ELSE /\ batchDepth' = IF batch THEN batchDepth + 1 ELSE batchDepth
                     /\ elems' = AddClass(elems, F, {CLASS_EXPANDED, CLASS_PROTECTED})
                     /\ IF outcome = "error"
                          THEN /\ last' = ExpandCallOf(f, "error")
                               /\ pc' = "returned"
                               /\ UNCHANGED x
                          ELSE /\ pc' = "neighbourhood"
                               /\ x' = f
                               /\ UNCHANGED last
  /\ ops' = ops + 1
  /\ UNCHANGED <<app, links, filterQuery>>

\* FrontierLinks reading the links of the other direction.
FrontierLinksSwapped(E, F, outgoing) ==
  UNION {IF outgoing THEN PageInlinks(links, n.data.path)
                     ELSE PageOutlinks(links, n.data.path) :
           n \in {m \in Nodes(E) : m.id \in F /\ m.data.path # NoPath}}

\* The paths the link index gives for the frontier nodes that have a path.
FrontierLinks(E, F, outgoing) ==
  UNION {IF outgoing THEN PageOutlinks(links, n.data.path)
                     ELSE PageInlinks(links, n.data.path) :
           n \in {m \in Nodes(E) : m.id \in F /\ m.data.path # NoPath}}

\* ExpandMerge with a recomputation pass after the merge of the nodes.
ExpandMergeNotifying(nbh) ==
  LET merged == mergeToGraph(elems, nbh, TRUE, filterQuery)
      nodes == SelectSeq(IdsInOrder(nbh, {}), LAMBDA i : i \in Ids(merged))
      shown == RemoveClass(merged, Range(nodes), {CLASS_HARD_FILTERED})
  IN  /\ elems' = shown
      /\ x' = [x EXCEPT !.els = nbh, !.nodes = nodes, !.all = Ids(Nodes(shown)),
                        !.log = @ \o mergeToGraphTrace(nbh, TRUE)]
      /\ pc' = "buildEdges"
      /\ UNCHANGED <<last, batchDepth>>

\* expand, lines 482-490: the neighbourhood is merged, its nodes lose
\* hard-filtered, and buildEdges is called on them and awaited.
ExpandMerge(nbh) ==
  LET merged == mergeToGraph(elems, nbh, FALSE, filterQuery)
      nodes == SelectSeq(IdsInOrder(nbh, {}), LAMBDA i : i \in Ids(merged))
      shown == RemoveClass(merged, Range(nodes), {CLASS_HARD_FILTERED})
  IN  /\ elems' = shown
      /\ x' = [x EXCEPT !.els = nbh, !.nodes = nodes, !.all = Ids(Nodes(shown)),
                        !.log = @ \o mergeToGraphTrace(nbh, FALSE)]
      /\ pc' = "buildEdges"
      /\ UNCHANGED <<last, batchDepth>>

\* expand throws: the promise rejects and the frame is gone.
ExpandThrow ==
  /\ last' = ExpandCallOf(x, "error")
  /\ pc' = "returned"
  /\ x' = NoFrame
  /\ UNCHANGED <<elems, batchDepth>>

\* toExpand, the collection the call holds: its nodes as they are in the
\* graph, and as they were when the call started if they have been removed
\* since.
Held(E, f) ==
  {n \in Nodes(E) : n.id \in f.ids}
    \cup {n \in Nodes(f.pre) : n.id \in f.ids /\ n.id \notin Ids(E)}

\* expand, lines 438-480: the neighbourhood has arrived and is restricted by
\* the direction flags.
ExpandNeighbourhood ==
  /\ pc = "neighbourhood"
  /\ LET nbh == neighbourhood(links, FrontierSeq(x.ids))
         asks == \E n \in Held(elems, x) : n.data.path # NoPath
     IN  IF x.inL /\ x.outL
           THEN /\ pc' = "neighbourhood2"
                /\ x' = [x EXCEPT !.els = nbh]
                /\ UNCHANGED <<elems, last, batchDepth>>
         ELSE IF ~x.inL /\ ~x.outL
           THEN ExpandThrow
         ELSE IF asks /\ x.dv # "ok"
           THEN ExpandThrow
         ELSE ExpandMerge(SelectSeq(nbh, LAMBDA nd :
                            nd.data.path \in FrontierLinks(Held(elems, x), x.ids,
                                                           x.outL)))
  /\ UNCHANGED <<app, links, filterQuery, ops>>

\* expand, line 476: with both flags the neighbourhood is fetched again.
ExpandNeighbourhood2 ==
  /\ pc = "neighbourhood2"
  /\ ExpandMerge(neighbourhood(links, FrontierSeq(x.ids)))
  /\ UNCHANGED <<app, links, filterQuery, ops>>

\* expand, lines 490-496: the edges have arrived and are merged, the batch
\* ends and the expand event is triggered.
ExpandBuildEdges ==
  /\ pc = "buildEdges"
  /\ LET edges == buildEdges(links, x.all, x.nodes)
     IN  /\ elems' = mergeToGraph(elems, edges, x.trig, filterQuery)
         /\ last' = ExpandCallOf(
                      [x EXCEPT !.log = @ \o mergeToGraphTrace(edges, x.trig)
                                          \o <<Ev("expand")>>,
                                !.carried = x.ids],
                      "ok")
  /\ batchDepth' = IF x.batch THEN batchDepth - 1 ELSE batchDepth
  /\ pc' = "returned"
  /\ x' = NoFrame
  /\ UNCHANGED <<app, links, filterQuery, ops>>

\* A call of condensedLayout(settings), the pages carrying the given counts.
CondensedLayout ==
  /\ pc = "idle"
  /\ ops < MaxOps
  /\ \E count \in [Docs -> Counts], avail \in {"ok", "missing"} :
       LET asks == \E n \in VisibleNodes(elems) : n.data.path # NoPath
           gone == NodesToRemove(elems, count)
           left == removeNodes(elems, Ids(gone), filterQuery)
           extra == ExtraEdges(links, AsSeq(Orphans(left)), VisibleNodes(left),
                               gone, <<>>)
           call == [NoCall EXCEPT !.op = "condensedLayout", !.count = count,
                                  !.dv = avail, !.pre = elems,
                                  !.depth = batchDepth]
       IN  /\ \A d \in Docs :
                 count[d] # -1 => \E n \in VisibleNodes(elems) : n.data.path = PathOf(d)
           /\ IF asks /\ avail # "ok"
                THEN /\ last' = [call EXCEPT !.result = "error"]
                     /\ UNCHANGED elems
              ELSE IF extra.over
                THEN /\ last' = [call EXCEPT !.result = "error", !.ids = Ids(gone),
                                              !.log = removeNodesTrace]
                     /\ elems' = left
              ELSE /\ last' = [call EXCEPT !.ids = Ids(gone), !.els = extra.edges,
                                  !.log = removeNodesTrace
                                            \o mergeToGraphTrace(extra.edges, FALSE)
                                            \o restartLayoutTrace]
                   /\ elems' = mergeToGraph(left, extra.edges, FALSE, filterQuery)
  /\ pc' = "returned"
  /\ ops' = ops + 1
  /\ UNCHANGED <<app, links, batchDepth, filterQuery, x>>

\* The caller has taken the outcome of the call; the session is idle again.
Return ==
  /\ pc = "returned"
  /\ pc' = "idle"
  /\ last' = NoCall
  /\ UNCHANGED <<app, links, elems, batchDepth, filterQuery, x, ops>>

Next ==
  \/ MergeToGraph
  \/ RemoveNodes
  \/ ExpandCall
  \/ ExpandNeighbourhood
  \/ ExpandNeighbourhood2
  \/ ExpandBuildEdges
  \/ CondensedLayout
  \/ Return

Spec == Init /\ [][Next]_vars

\* ------------------------------------------------------------------ opened views

\* The queries users type into the filter box.
Queries == {"", "class:tag-x", "class:note"}

\* The lists of documents a view is opened on (initialNodes), in the order
\* of the vault.
OpenedDocs ==
  {SelectSeq(DocOrder, LAMBDA d : d \in S) : S \in (SUBSET Docs) \ {{}}}

\* Juggl.onload with the given initialNodes and expandInitial off.
onload(l, docs) ==
  LET nodes == {nodeFromFile(docs[i]) : i \in DOMAIN docs}
      tagged == AddClass(nodes, Ids(nodes), {CLASS_PROTECTED})
      ids == [i \in DOMAIN docs |-> toId(docs[i])]
      edges == buildEdges(l, Ids(tagged), ids)
  IN  onGraphChanged(VizAdd(tagged, edges), "", LocalStyleGroups,
                     GlobalStyleGroups)

\* A view opened on any list of documents of the vault.
InitOpened ==
  /\ links \in Range(Corpora)
  /\ \E docs \in OpenedDocs : elems = onload(links, docs)
  /\ batchDepth = 0
  /\ filterQuery = ""
  /\ pc = "idle"
  /\ x = NoFrame
  /\ last = NoCall
  /\ ops = 0
  /\ app = NoApp

\* A call of searchFilter(query).
SearchFilter ==
  /\ pc = "idle"
  /\ ops < MaxOps
  /\ \E query \in Queries :
       /\ elems' = searchFilter(elems, query)
       /\ filterQuery' = query
       /\ last' = [NoCall EXCEPT !.op = "searchFilter", !.query = query,
                                  !.pre = elems, !.depth = batchDepth,
                                  !.log = <<Ev("searchFilter")>>]
  /\ pc' = "returned"
  /\ ops' = ops + 1
  /\ UNCHANGED <<app, links, batchDepth, x>>

\* The operations on an opened view that filter, remove and condense.
NextOpened ==
  \/ SearchFilter
  \/ RemoveNodes
  \/ CondensedLayout
  \/ Return

SpecOpened == InitOpened /\ [][NextOpened]_vars

\* ------------------------------------------------------------------ claims

\* The element of E with the given id.
ElemOf(E, id) == CHOOSE e \in E : e.id = id

\* A call of the given operation has just returned or thrown.
Called(op) == pc = "returned" /\ last.op = op

\* The ids of the nodes among a list of definitions.
BatchNodeIds(els) ==
  {els[i].id : i \in {j \in DOMAIN els : els[j].group = "nodes"}}

\* The last definition of its id in the list is the one at i.
LastOfId(els, i) == \A j \in DOMAIN els : j > i => els[j].id # els[i].id

\* C1: no two elements of the graph share an id, in every state; a merge of
\* definitions whose ids are all present leaves the element count unchanged,
\* and the element of a present id carries the classes and the data of the
\* last definition merged into it.
C1_UniqueIds ==
  /\ \A e1, e2 \in elems : e1.id = e2.id => e1 = e2
  /\ Called("mergeToGraph") =>
       /\ (\A i \in DOMAIN last.els : last.els[i].id \in Ids(last.pre))
            => Cardinality(elems) = Cardinality(last.pre)
       /\ \A i \in DOMAIN last.els :
            (last.els[i].id \in Ids(last.pre) /\ LastOfId(last.els, i)) =>
              /\ last.els[i].id \in Ids(elems)
              /\ last.els[i].classes \subseteq ElemOf(elems, last.els[i].id).classes
              /\ \A k \in DataKeys :
                   last.els[i].data[k] # NoData[k] =>
                     ElemOf(elems, last.els[i].id).data[k] = last.els[i].data[k]

\* C1 witness: one batch brought two different definitions of an id that was
\* not in the graph, and the graph holds that id now.
C1_Witness ==
  /\ Called("mergeToGraph")
  /\ \E i, j \in DOMAIN last.els :
       /\ i # j
       /\ last.els[i].id = last.els[j].id
       /\ last.els[i] # last.els[j]
       /\ last.els[i].id \notin Ids(last.pre)
       /\ last.els[i].id \in Ids(elems)

\* The style group a group class belongs to is configured.
Configured(c) ==
  \/ \E i \in DOMAIN LocalStyleGroups : c = GroupClass("local", i - 1)
  \/ \E i \in DOMAIN GlobalStyleGroups : c = GroupClass("global", i - 1)

\* The node matches the filter of the configured group of class c.
MatchesGroup(c, n) ==
  \/ \E i \in DOMAIN LocalStyleGroups :
       c = GroupClass("local", i - 1) /\ Matches(LocalStyleGroups[i], n)
  \/ \E i \in DOMAIN GlobalStyleGroups :
       c = GroupClass("global", i - 1) /\ Matches(GlobalStyleGroups[i], n)

\* C2 as stated: a node that carries protected, pinned, expanded or a class
\* prefixed global- or local- still carries it after a mergeToGraph of a
\* definition of its id that lacks the class.
C2_StickyAllKept ==
  Called("mergeToGraph") =>
    \A n \in Nodes(last.pre) : \A c \in n.classes :
      ( /\ c \in CLASSES \/ IsGroupClass(c)
        /\ \E i \in DOMAIN last.els :
             last.els[i].id = n.id /\ c \notin last.els[i].classes )
      => c \in ElemOf(elems, n.id).classes

\* C2 amended: protected, pinned and expanded survive every mergeToGraph and
\* every expand; a class prefixed global- or local- survives a mergeToGraph
\* unless the merge ran the recomputation pass, the class is the tag of a
\* configured style group and the node does not match that group's filter.
C2_StickyKept ==
  /\ (Called("mergeToGraph") \/ Called("expand")) =>
       \A n \in Nodes(last.pre) : \A c \in n.classes \cap CLASSES :
         /\ n.id \in Ids(elems)
         /\ c \in ElemOf(elems, n.id).classes
  /\ Called("mergeToGraph") =>
       \A n \in Nodes(last.pre) : \A c \in n.classes :
         IsGroupClass(c) =>
           \/ c \in ElemOf(elems, n.id).classes
           \/ /\ last.trig
              /\ Configured(c)
              /\ ~MatchesGroup(c, ElemOf(elems, n.id))

\* C2 witness: a merge with the recomputation pass met a node carrying
\* protected whose definition lacked it, and a node carrying a group class
\* that it lost.
C2_Witness ==
  /\ Called("mergeToGraph")
  /\ last.trig
  /\ \E n \in Nodes(last.pre) : \E i \in DOMAIN last.els :
       /\ last.els[i].id = n.id
       /\ CLASS_PROTECTED \in n.classes
       /\ CLASS_PROTECTED \notin last.els[i].classes
       /\ CLASS_PROTECTED \in ElemOf(elems, n.id).classes
  /\ \E n \in Nodes(last.pre) : \E c \in n.classes :
       IsGroupClass(c) /\ c \notin ElemOf(elems, n.id).classes

\* C3: in every state the source and the target of every edge of the graph
\* are ids of nodes of the graph.
C3_NoDanglingEdge ==
  \A e \in Edges(elems) :
    e.source \in Ids(Nodes(elems)) /\ e.target \in Ids(Nodes(elems))

\* C3 witness: condensedLayout removed nodes and the edges it built for the
\* orphans are in the graph.
C3_Witness ==
  /\ Called("condensedLayout")
  /\ last.ids # {}
  /\ last.els # <<>>
  /\ \A i \in DOMAIN last.els : last.els[i] \in elems
  /\ \E e \in Edges(last.pre) : e.source \in last.ids \/ e.target \in last.ids

\* The definition at i is an edge with an end that is neither a node of the
\* graph the call met nor a node of the batch.
DanglingAt(i) ==
  /\ last.els[i].group = "edges"
  /\ ~ ({last.els[i].source, last.els[i].target}
          \subseteq (Ids(Nodes(last.pre)) \cup BatchNodeIds(last.els)))

\* C4: a mergeToGraph of a batch with such an edge returns normally, the
\* edge is not in the graph afterwards, and every other definition of the
\* batch is.
C4_DanglingEdgeDropped ==
  Called("mergeToGraph") =>
    /\ last.result = "ok"
    /\ \A i \in DOMAIN last.els :
         IF DanglingAt(i) THEN last.els[i].id \notin Ids(elems)
         ELSE last.els[i].id \in Ids(elems)

\* C4 witness: a batch with a dangling edge and a node that was not in the
\* graph has been merged, and the node is in the graph.
C4_Witness ==
  /\ Called("mergeToGraph")
  /\ \E i, j \in DOMAIN last.els :
       /\ DanglingAt(i)
       /\ last.els[j].group = "nodes"
       /\ last.els[j].id \notin Ids(last.pre)
       /\ last.els[j].id \in Ids(elems)

\* C5 as stated: expand with an empty frontier is rejected with an error and
\* leaves the graph unchanged.
C5_EmptyFrontierRejected ==
  (Called("expand") /\ last.ids = {}) =>
    (last.result = "error" /\ elems = last.pre)

\* C5 amended: expand with an empty frontier returns null, raising no error,
\* and leaves the graph unchanged.
C5_EmptyFrontierNull ==
  (Called("expand") /\ last.ids = {}) =>
    (last.result = "null" /\ elems = last.pre)

\* C5 witness: expand has returned from a call with an empty frontier on a
\* graph that has nodes.
C5_Witness ==
  Called("expand") /\ last.ids = {} /\ last.result = "null" /\ Nodes(elems) # {}

\* C6: expand on a non-empty frontier with both direction flags false throws
\* and leaves nodes, edges and class tags as they were before the call.
C6_BadFlagsNoMutation ==
  (Called("expand") /\ last.ids # {} /\ ~last.inL /\ ~last.outL) =>
    (last.result = "error" /\ elems = last.pre)

\* C7: expand on a non-empty frontier without the link index fails and
\* leaves nodes, edges and class tags as they were before the call.
C7_NoLinkIndexNoMutation ==
  (Called("expand") /\ last.ids # {} /\ last.dv # "ok") =>
    (last.result = "error" /\ elems = last.pre)

\* C8: after a successful expand every node of the frontier is in the graph
\* and carries expanded and protected.
C8_FrontierTagged ==
  (Called("expand") /\ last.result = "ok") =>
    \A id \in last.ids :
      /\ id \in Ids(Nodes(elems))
      /\ {CLASS_EXPANDED, CLASS_PROTECTED} \subseteq ElemOf(elems, id).classes

\* C8 witness: a successful expand merged a neighbourhood that delivered a
\* frontier node again, without expanded and protected.
C8_Witness ==
  /\ Called("expand")
  /\ last.result = "ok"
  /\ \E i \in DOMAIN last.els :
       /\ last.els[i].id \in last.ids
       /\ last.els[i].classes \cap {CLASS_EXPANDED, CLASS_PROTECTED} = {}

\* The document of node id n is referenced by (outgoing) or references (not
\* outgoing) the document of some node of F.
LinkedToFrontier(n, F, outgoing) ==
  \E f \in F :
    IF outgoing THEN DocOfId(n) \in Range(links[DocOfId(f)])
    ELSE DocOfId(f) \in Range(links[DocOfId(n)])

\* C9: a successful expand with exactly one direction flag adds only nodes
\* that a frontier node references (out-only) or that reference a frontier
\* node (in-only); out-only from {A} on a graph of A alone, with the links
\* A->B, A->C, D->A, leaves the nodes A, B, C.
C9_DirectionalExpand ==
  (Called("expand") /\ last.result = "ok" /\ last.inL # last.outL) =>
    /\ \A n \in Ids(Nodes(elems)) \ Ids(last.pre) :
         LinkedToFrontier(n, last.ids, last.outL)
    /\ ( /\ links = Corpora[2]
         /\ last.outL
         /\ last.ids = {toId(A)}
         /\ Ids(Nodes(last.pre)) = {toId(A)} )
       => Ids(Nodes(elems)) = {toId(A), toId(B), toId(C)}

\* C9 witness: the out-only expand of {A} on the graph of A alone has
\* returned, D linking into A.
C9_Witness ==
  /\ Called("expand")
  /\ last.result = "ok"
  /\ links = Corpora[2]
  /\ last.outL /\ ~last.inL
  /\ last.ids = {toId(A)}
  /\ Ids(Nodes(last.pre)) = {toId(A)}
  /\ toId(D) \notin Ids(elems)

\* The ids of the first edges A->B, A->C and B->C.
IdAB == EdgeIdOf(toId(A), toId(B), 1)
IdAC == EdgeIdOf(toId(A), toId(C), 1)
IdBC == EdgeIdOf(toId(B), toId(C), 1)

\* A successful expand of F with both directions, the links being A->B,
\* A->C, B->C.
ExpandedBoth(F) ==
  /\ Called("expand")
  /\ last.result = "ok"
  /\ last.inL /\ last.outL
  /\ links = Corpora[1]
  /\ last.ids = F

\* C10 as stated: on the graph of A alone, expand({A}) yields the nodes A, B,
\* C and exactly the edges A->B and A->C; expand({B}) then adds B->C.
C10_ExpandLeavesBC ==
  /\ (ExpandedBoth({toId(A)}) /\ last.pre = InitialGraph(links)) =>
       /\ Ids(Nodes(elems)) = {toId(A), toId(B), toId(C)}
       /\ Ids(Edges(elems)) = {IdAB, IdAC}
  /\ ( /\ ExpandedBoth({toId(B)})
       /\ Ids(Nodes(last.pre)) = {toId(A), toId(B), toId(C)}
       /\ Ids(Edges(last.pre)) = {IdAB, IdAC} )
     => /\ Ids(Edges(elems)) = {IdAB, IdAC, IdBC}
        /\ Cardinality(Nodes(elems)) = 3

\* C10 amended: expand({A}) yields the nodes A, B, C and the edges A->B, A->C
\* and B->C at once; expand({B}) then adds no node and no edge.
C10_ExpandConnectsAll ==
  /\ (ExpandedBoth({toId(A)}) /\ last.pre = InitialGraph(links)) =>
       /\ Ids(Nodes(elems)) = {toId(A), toId(B), toId(C)}
       /\ Ids(Edges(elems)) = {IdAB, IdAC, IdBC}
       /\ Cardinality(elems) = 6
  /\ ( /\ ExpandedBoth({toId(B)})
       /\ Ids(Nodes(last.pre)) = {toId(A), toId(B), toId(C)}
       /\ Ids(Edges(last.pre)) = {IdAB, IdAC, IdBC} )
     => /\ Ids(elems) = Ids(last.pre)
        /\ Cardinality(elems) = 6

\* C10 witness: expand({B}) has returned on the graph that expand({A}) left.
C10_Witness ==
  /\ ExpandedBoth({toId(B)})
  /\ Ids(Nodes(last.pre)) = {toId(A), toId(B), toId(C)}
  /\ Ids(Edges(last.pre)) = {IdAB, IdAC, IdBC}
  /\ \E n \in Nodes(last.pre) : n.id = toId(A) /\ CLASS_EXPANDED \in n.classes

\* C11: in every graph a caller finds, merging an element a second time
\* leaves the graph the first merge of it left: same elements, same classes,
\* same data.
C11_MergeIdempotent ==
  pc = "idle" =>
    \A e \in ElementPool, trig \in BOOLEAN :
      LET once == mergeToGraph(elems, <<e>>, trig, filterQuery)
      IN  mergeToGraph(once, <<e>>, trig, filterQuery) = once

\* C11 witness: the second of two calls has merged a single element, whose id
\* an earlier call had brought into the graph, and has left the graph as it
\* was.
C11_Witness ==
  /\ Called("mergeToGraph")
  /\ ops = 2
  /\ Len(last.els) = 1
  /\ last.els[1].id \in Ids(last.pre) \ Ids(InitialGraph(links))
  /\ elems = last.pre

\* The data keys the recomputation pass writes.
DerivedKeys == {"degree", "nameLength"}

\* Element i of the batch is the only one of its id, and the id was in the
\* graph before the call.
MergedOnce(i) ==
  /\ last.els[i].id \in Ids(last.pre)
  /\ \A j \in DOMAIN last.els : j # i => last.els[j].id # last.els[i].id

\* C12 as stated: after a merge into an element of the graph, the element's
\* data is the incoming data, the keys the incoming element lacks being gone
\* (the keys the recomputation pass writes set aside).
C12_DataOverwritten ==
  Called("mergeToGraph") =>
    \A i \in DOMAIN last.els :
      MergedOnce(i) =>
        \A k \in DataKeys \ DerivedKeys :
          ElemOf(elems, last.els[i].id).data[k] = last.els[i].data[k]

\* C12 amended: after a merge into an element of the graph, every key the
\* incoming element carries has the incoming value and every other key keeps
\* the value it had, but for the keys the recomputation pass rewrites.
C12_DataKeywise ==
  Called("mergeToGraph") =>
    \A i \in DOMAIN last.els :
      MergedOnce(i) =>
        LET new == last.els[i].data
            old == ElemOf(last.pre, last.els[i].id).data
            now == ElemOf(elems, last.els[i].id).data
        IN  \A k \in DataKeys :
              IF new[k] # NoData[k] THEN now[k] = new[k]
              ELSE (last.trig /\ k \in DerivedKeys) \/ now[k] = old[k]

\* C12 witness: a node that has a path was merged with an element that
\* carries none, and has its path still.
C12_Witness ==
  /\ Called("mergeToGraph")
  /\ \E i \in DOMAIN last.els :
       /\ MergedOnce(i)
       /\ last.els[i].data.path = NoPath
       /\ ElemOf(last.pre, last.els[i].id).data.path # NoPath
       /\ ElemOf(elems, last.els[i].id).data.path # NoPath

\* Node id n has, in graph E, an edge to or from a node of T.
NeighbourIn(E, n, T) ==
  \E e \in Edges(E) : \/ e.source = n /\ e.target \in T
                      \/ e.target = n /\ e.source \in T

\* The call that has returned removed the nodes last.ids through removeNodes.
Removed ==
  \/ Called("removeNodes")
  \/ Called("condensedLayout") /\ last.ids # {}

\* C13: after removeNodes(T) a surviving node carries expanded exactly when
\* it carried it before and had no neighbour in T, and its protected and
\* pinned tags are as before.
C13_ExpandedAfterRemoval ==
  Removed =>
    \A n \in Nodes(last.pre) :
      n.id \notin last.ids =>
        LET now == ElemOf(elems, n.id).classes
        IN  /\ n.id \in Ids(Nodes(elems))
            /\ (CLASS_EXPANDED \in now) <=>
                 (CLASS_EXPANDED \in n.classes /\ ~NeighbourIn(last.pre, n.id, last.ids))
            /\ (CLASS_PROTECTED \in now) <=> (CLASS_PROTECTED \in n.classes)
            /\ (CLASS_PINNED \in now) <=> (CLASS_PINNED \in n.classes)

\* C13 witness: removeNodes took a neighbour of an expanded node, which
\* survives without expanded and with protected.
C13_Witness ==
  /\ Called("removeNodes")
  /\ \E n \in Nodes(last.pre) :
       /\ n.id \notin last.ids
       /\ {CLASS_EXPANDED, CLASS_PROTECTED} \subseteq n.classes
       /\ NeighbourIn(last.pre, n.id, last.ids)
       /\ CLASS_EXPANDED \notin ElemOf(elems, n.id).classes
       /\ CLASS_PROTECTED \in ElemOf(elems, n.id).classes

\* C14: expand and mergeToGraph, at every step and whether they return or
\* throw, and searchFilter and the recomputation pass, for every query, leave
\* every node of the graph in the graph.
C14_NodesStay ==
  /\ (Called("expand") \/ Called("mergeToGraph")) =>
       Ids(Nodes(last.pre)) \subseteq Ids(Nodes(elems))
  /\ pc \notin {"idle", "returned"} =>
       Ids(Nodes(x.pre)) \subseteq Ids(Nodes(elems))
  /\ pc = "idle" => \A q \in Queries :
       /\ Ids(Nodes(searchFilter(elems, q))) = Ids(Nodes(elems))
       /\ Ids(Nodes(onGraphChanged(elems, q, LocalStyleGroups, GlobalStyleGroups)))
            = Ids(Nodes(elems))

\* C14 witness: an expand has returned whose retrieval did not deliver a node
\* that was in the graph, and that node is in the graph.
C14_Witness ==
  /\ Called("expand")
  /\ last.result = "ok"
  /\ \E n \in Nodes(last.pre) :
       /\ \A i \in DOMAIN last.els : last.els[i].id # n.id
       /\ n.id \in Ids(Nodes(elems))

\* The visible edges that enter node n of graph E.
VisibleIn(E, n) == Cardinality({e \in VisibleEdges(E) : e.target = n.id})

\* page.VizInLinksCount of the page of node n at the call (-1: the node has
\* no path, or the page lacks a count).
CountOf(n) ==
  IF \E d \in Docs : PathOf(d) = n.data.path
    THEN last.count[CHOOSE d \in Docs : PathOf(d) = n.data.path]
    ELSE -1

\* C15 as stated: condensedLayout removes no node that two or more visible
\* edges enter, whatever the count its page carries.
C15_InDegreeTwoKept ==
  Called("condensedLayout") =>
    \A n \in VisibleNodes(last.pre) :
      VisibleIn(last.pre, n) >= 2 =>
        (n.id \notin last.ids /\ n.id \in Ids(elems))

\* C15 amended: condensedLayout removes exactly the visible nodes whose page
\* carries a count below 2; a node that two or more visible edges enter is
\* kept when the count of its page is that number.
C15_CountTwoKept ==
  (Called("condensedLayout") /\ last.dv = "ok") =>
    \A n \in VisibleNodes(last.pre) :
      /\ (CountOf(n) >= 2 \/ CountOf(n) = -1) =>
           (n.id \notin last.ids /\ n.id \in Ids(elems))
      /\ CountOf(n) \in {0, 1} =>
           (n.id \in last.ids /\ n.id \notin Ids(elems))
      /\ (VisibleIn(last.pre, n) >= 2 /\ CountOf(n) = VisibleIn(last.pre, n)) =>
           n.id \in Ids(elems)

\* C15 witness: condensedLayout has removed a node and kept one that two
\* visible edges enter and whose page counts two.
C15_Witness ==
  /\ Called("condensedLayout")
  /\ last.result = "ok"
  /\ last.ids # {}
  /\ \E n \in VisibleNodes(last.pre) :
       /\ VisibleIn(last.pre, n) = 2
       /\ CountOf(n) = 2
       /\ n.id \in Ids(elems)

\* The documents that reference a document of T.
Back(T) == {s \in Docs : \E t \in T : t \in Range(links[s])}

\* The documents of gone from which a document of seen is reached through
\* documents of gone, seen included.
RECURSIVE Through(_, _)
Through(gone, seen) ==
  LET next == seen \cup (Back(seen) \cap gone)
  IN  IF next = seen THEN seen ELSE Through(gone, next)

\* The documents of the nodes of S that have a path.
DocsOf(S) == {d \in Docs : \E n \in S : n.data.path = PathOf(d)}

\* The documents of the nodes still visible that reference the document d
\* directly or through a chain of documents whose nodes were removed.
ViaRemoved(d) ==
  LET gone == DocsOf({n \in Nodes(last.pre) : n.id \in last.ids})
      near == Back({d})
  IN  (near \cup Back(Through(gone, near \cap gone))) \cap DocsOf(VisibleNodes(elems))

\* The nodes visible before the call that are visible after it.
StillVisible ==
  {n \in VisibleNodes(elems) : n.id \in Ids(VisibleNodes(last.pre))}

\* C16 as stated: after condensedLayout every node visible before and after
\* has a connected visible edge, or no edge from another node entered it in
\* the graph before the call.
C16_OrphansRepaired ==
  (Called("condensedLayout") /\ last.result = "ok") =>
    \A n \in StillVisible :
      \/ ConnectedVisibleEdges(elems, n) # {}
      \/ ~\E e \in Edges(last.pre) : e.target = n.id /\ e.source # n.id

\* C16 amended: after condensedLayout every node visible before and after
\* has a connected visible edge, or has no path, or no node still visible
\* references it directly or through a chain of removed nodes.
C16_OrphansRepairedViaRemoved ==
  (Called("condensedLayout") /\ last.result = "ok") =>
    \A n \in StillVisible :
      \/ ConnectedVisibleEdges(elems, n) # {}
      \/ n.data.path = NoPath
      \/ \A d \in DocsOf({n}) : ViaRemoved(d) = {}

\* C16 witness: condensedLayout removed every neighbour of a node and gave it
\* an edge from a node that reaches it only through a removed one.
C16_Witness ==
  /\ Called("condensedLayout")
  /\ last.result = "ok"
  /\ \E n \in StillVisible :
       /\ \E e \in Edges(last.pre) : e.target = n.id
       /\ \A e \in Edges(last.pre) :
            (e.target = n.id \/ e.source = n.id) =>
              (e.source \in last.ids \/ e.target \in last.ids)
       /\ \E i \in DOMAIN last.els :
            /\ last.els[i].target = n.id
            /\ last.els[i] \in ConnectedVisibleEdges(elems, n)
            /\ DocOfId(n.id) \notin Range(links[DocOfId(last.els[i].source)])

\* C17: the ancestor walk of condensedLayout ends for every orphan and every
\* reference relation, with no error reaching the caller, references among
\* the removed nodes that form a cycle included.
C17_WalkTerminates ==
  (Called("condensedLayout") /\ last.dv = "ok") => last.result = "ok"

\* C18: searchFilter leaves the ids, ends, data and classes of all elements
\* as they were but for filtered, which a node carries afterwards exactly
\* when it does not match the query.
C18_FilterOnlyTags ==
  Called("searchFilter") =>
    /\ Ids(elems) = Ids(last.pre)
    /\ Cardinality(elems) = Cardinality(last.pre)
    /\ Edges(elems) = Edges(last.pre)
    /\ filterQuery = last.query
    /\ \A n \in Nodes(last.pre) :
         LET now == ElemOf(elems, n.id)
         IN  /\ now.group = "nodes"
             /\ now.data = n.data
             /\ now.classes \ {CLASS_FILTERED} = n.classes \ {CLASS_FILTERED}
             /\ (CLASS_FILTERED \in now.classes) <=> ~Matches(last.query, n)

\* C18 witness: searchFilter has returned on a graph with edges, leaving a
\* node filtered that was not and a node unfiltered.
C18_Witness ==
  /\ Called("searchFilter")
  /\ Edges(elems) # {}
  /\ \E n \in Nodes(last.pre) :
       /\ CLASS_FILTERED \notin n.classes
       /\ CLASS_FILTERED \in ElemOf(elems, n.id).classes
  /\ \E n \in Nodes(elems) : CLASS_FILTERED \notin n.classes

\* Every node's degree attribute is the number node.degree(false) gives now.
DegreesCurrent ==
  \A n \in Nodes(elems) : n.data.degree = Degree(elems, n)

\* C19: after expand and mergeToGraph with triggerGraphChanged true, after
\* removeNodes and after condensedLayout, every node's degree attribute
\* counts the edges connected to it now, the edges condensedLayout
\* synthesized included.
C19_DegreeCurrent ==
  /\ (Called("expand") /\ last.result = "ok" /\ last.trig) => DegreesCurrent
  /\ (Called("mergeToGraph") /\ last.trig) => DegreesCurrent
  /\ Called("removeNodes") => DegreesCurrent
  /\ (Called("condensedLayout") /\ last.result = "ok") => DegreesCurrent

\* C20: after a call that ends in a recomputation pass, a node carries
\* has-incoming-t (has-outgoing-t) exactly when an edge of type t, inline
\* for an untyped edge, enters (leaves) it now.
C20_HasClassesCurrent ==
  \/ Called("removeNodes")
  \/ Called("mergeToGraph") /\ last.trig
  \/ Called("expand") /\ last.result = "ok" /\ last.trig
  => \A n \in Nodes(elems) :
       \A c \in {"has-incoming-inline", "has-outgoing-inline"} :
         c \in n.classes <=> c \in HasClasses(elems, n)

\* ------------------------------------------------------------------ the store alone

InitStore ==
  /\ links \in StoreCorpora
  /\ elems = {}
  /\ batchDepth = 0
  /\ filterQuery = ""
  /\ pc = "idle"
  /\ x = NoFrame
  /\ last = NoCall
  /\ ops = 0
  /\ app = NoApp

\* A call of connectNodes(allNodes, newNodes) of the store.
ConnectNodes ==
  /\ pc = "idle"
  /\ \E allNodes \in SUBSET NodeIds, S \in SUBSET NodeIds :
       last' = [NoFrame EXCEPT !.op = "connectNodes", !.all = allNodes,
                               !.nodes = FrontierSeq(S),
                               !.els = connectNodes(links, allNodes,
                                                    FrontierSeq(S))]
  /\ pc' = "returned"
  /\ UNCHANGED <<app, links, elems, batchDepth, filterQuery, x, ops>>

NextStore ==
  \/ ConnectNodes
  \/ Return

SpecStore == InitStore /\ [][NextStore]_vars

\* The edges of a result from one source to one target, in order.
EdgesOfPair(edges, s, t) ==
  SelectSeq(edges, LAMBDA e : e.source = s /\ e.target = t)

\* C21 (per pair): in the result of one connectNodes call the edges from a
\* source to a target in the graph are as many as the references, and the
\* i-th of them has the id of the pair followed by i.
C21_PairsCounted ==
  Called("connectNodes") =>
    \A s \in Range(last.nodes), t \in last.all :
      LET es == EdgesOfPair(last.els, s, t)
          refs == SelectSeq(links[DocOfId(s)], LAMBDA d : toId(d) = t)
      IN  /\ Len(es) = Len(refs)
          /\ \A i \in DOMAIN es : es[i].id = EdgeIdOf(s, t, i)

\* C21: within the result of one connectNodes call all edge ids are
\* pairwise distinct, and the k references from a source to a target in
\* the graph give k edges whose ids end in 1..k.
C21_EdgeIdsDistinct ==
  /\ C21_PairsCounted
  /\ Called("connectNodes") =>
       \A i, j \in DOMAIN last.els :
         i # j => last.els[i].id # last.els[j].id

\* A result with two edges from A to B.
C21_Witness ==
  /\ Called("connectNodes")
  /\ Len(EdgesOfPair(last.els, toId(A), toId(B))) = 2
\* ------------------------------------------------------------------ the global graph

\* main.ts, line 315: the number of names above which openGlobalGraph asks.
GlobalCeiling == 250

\* The numbers of files of the vault.
FileCounts == (GlobalCeiling - FilesSpread)..(GlobalCeiling + FilesSpread)

\* The test of line 315 taken at the ceiling already.
NeedsWarningFromCeiling(names) == names >= GlobalCeiling

\* names.length > 250
NeedsWarning(names) == names > GlobalCeiling

InitGlobal ==
  /\ links \in Range(Corpora)
  /\ elems = {}
  /\ batchDepth = 0
  /\ filterQuery = ""
  /\ pc = "idle"
  /\ x = NoFrame
  /\ last = NoCall
  /\ ops = 0
  /\ \E n \in FileCounts : app = [NoApp EXCEPT !.files = n]

\* openGlobalGraph, lines 311-326: above the ceiling the warning modal is
\* opened on the names, otherwise the view is created and opened.
OpenGlobalGraph ==
  /\ pc = "idle"
  /\ app.modal = NoView
  /\ LET names == app.files
     IN  app' = IF NeedsWarning(names) THEN [app EXCEPT !.modal = names]
                ELSE [app EXCEPT !.leaf = names]
  /\ last' = [NoCall EXCEPT !.op = "openGlobalGraph"]
  /\ pc' = "returned"
  /\ UNCHANGED <<links, elems, batchDepth, filterQuery, x, ops>>

\* The user confirms: the modal runs its callback, lines 316-320, which
\* creates and opens the view on the names and closes the modal.
ConfirmGlobalGraph ==
  /\ pc = "idle"
  /\ app.modal # NoView
  /\ app' = [app EXCEPT !.leaf = app.modal, !.modal = NoView]
  /\ last' = [NoCall EXCEPT !.op = "confirm"]
  /\ pc' = "returned"
  /\ UNCHANGED <<links, elems, batchDepth, filterQuery, x, ops>>

\* The user closes the modal without confirming: the callback never runs.
DismissGlobalGraph ==
  /\ pc = "idle"
  /\ app.modal # NoView
  /\ app' = [app EXCEPT !.modal = NoView]
  /\ last' = [NoCall EXCEPT !.op = "dismiss"]
  /\ pc' = "returned"
  /\ UNCHANGED <<links, elems, batchDepth, filterQuery, x, ops>>

\* A file is created in the vault or deleted from it.
ChangeVault ==
  /\ pc = "idle"
  /\ \E n \in {app.files - 1, app.files + 1} :
       /\ n \in FileCounts
       /\ app' = [app EXCEPT !.files = n]
  /\ UNCHANGED <<links, elems, batchDepth, filterQuery, pc, x, last, ops>>

NextGlobal ==
  \/ OpenGlobalGraph
  \/ ConfirmGlobalGraph
  \/ DismissGlobalGraph
  \/ ChangeVault
  \/ Return

SpecGlobal == InitGlobal /\ [][NextGlobal]_vars

\* C22: a call of openGlobalGraph on more documents than the ceiling opens
\* no view and asks; at or below the ceiling it opens the view on the
\* documents without asking; and a view of more documents than the ceiling
\* comes into the leaf only by the user's confirmation, on the names asked
\* about.
C22_GlobalGraphGated ==
  [][/\ last'.op = "openGlobalGraph" /\ pc = "idle" =>
          IF app.files > GlobalCeiling
            THEN app'.leaf = app.leaf /\ app'.modal = app.files
            ELSE app'.leaf = app.files /\ app'.modal = NoView
     /\ app'.leaf # app.leaf /\ app'.leaf > GlobalCeiling =>
          last'.op = "confirm" /\ app.modal = app'.leaf]_vars

\* The view of a vault above the ceiling, opened on confirmation.
C22_Witness ==
  /\ Called("confirm")
  /\ app.leaf > GlobalCeiling
\* ------------------------------------------------------------------ order of notifications

\* The positions of the entries of a kind in a log.
Positions(log, name) == {i \in DOMAIN log : log[i] = Ev(name)}

\* C23: a mergeToGraph call with triggerGraphChanged = true runs the
\* recomputation pass exactly once, after every element was handled and the
\* staged additions were committed, so that the graph it leaves is the pass
\* applied to the merged graph; with triggerGraphChanged = false it runs no
\* pass.
C23_OnePassAfterCommit ==
  Called("mergeToGraph") =>
    LET passes == Positions(last.log, "onGraphChanged")
        merged == mergeToGraph(last.pre, last.els, FALSE, filterQuery)
    IN  /\ Cardinality(passes) = IF last.trig THEN 1 ELSE 0
        /\ Cardinality(Positions(last.log, "element")) = Len(last.els)
        /\ \A p \in passes :
             \A i \in Positions(last.log, "element")
                        \cup Positions(last.log, "add") : i < p
        /\ elems = IF last.trig
                     THEN onGraphChanged(merged, filterQuery, LocalStyleGroups,
                                         GlobalStyleGroups)
                     ELSE merged

\* A merge of two elements, one of them new to the graph, with the pass.
C23_Witness ==
  /\ Called("mergeToGraph")
  /\ last.trig
  /\ Len(last.els) = 2
  /\ \E i \in DOMAIN last.els : last.els[i].id \notin Ids(last.pre)
\* C24: a successful expand(F) with batch and triggerGraphChanged true
\* commits the neighbourhood's nodes and then the edges with no
\* elementsChange between the two, triggers elementsChange exactly once,
\* after both, and then triggers the expand event exactly once, carrying F.
C24_ExpandNotifiesOnce ==
  Called("expand") /\ last.result = "ok" /\ last.batch /\ last.trig =>
    LET adds == Positions(last.log, "add")
        notes == Positions(last.log, "elementsChange")
        evs == Positions(last.log, "expand")
    IN  /\ Cardinality(adds) = 2
        /\ Cardinality(notes) = 1
        /\ Cardinality(Positions(last.log, "onGraphChanged")) = 1
        /\ Cardinality(evs) = 1
        /\ \A n \in notes : \A a \in adds : a < n
        /\ last.carried = last.ids
        /\ \A e \in evs : \A n \in notes : n < e

\* An expand of A with batch and triggerGraphChanged that brought a node
\* and an edge into the graph.
C24_Witness ==
  /\ Called("expand") /\ last.result = "ok" /\ last.batch /\ last.trig
  /\ last.ids = {toId(A)}
  /\ Ids(Nodes(elems)) # Ids(Nodes(last.pre))
  /\ Edges(elems) # Edges(last.pre)
\* The filtered tag of every node reflects the query and the tags of the
\* configured style groups reflect the groups' filters.
TagsCurrent(G, query) ==
  \A n \in Nodes(G) :
    /\ CLASS_FILTERED \in n.classes <=> ~Matches(query, n)
    /\ \A c \in LocalClasses \cup GlobalClasses :
         Configured(c) => (c \in n.classes <=> MatchesGroup(c, n))

\* The pass of a mergeToGraph call leaves what onGraphChanged leaves, and
\* leaves the tags current.
PassComplete ==
  Called("mergeToGraph") /\ last.trig =>
    LET trace == onGraphChangedTrace(FALSE)
    IN  /\ elems = onGraphChangedAt(
                     mergeToGraph(last.pre, last.els, FALSE, filterQuery),
                     filterQuery, trace, Len(trace) + 1)
        /\ TagsCurrent(elems, filterQuery)

\* C25: when the pass of a mergeToGraph call triggers elementsChange, and
\* when it restarts the layout, the filtered tags already reflect the stored
\* query and the style-group tags already reflect the configured groups.
C25_TagsSetWhenNotified ==
  Called("mergeToGraph") /\ last.trig =>
    LET trace == onGraphChangedTrace(FALSE)
        merged == mergeToGraph(last.pre, last.els, FALSE, filterQuery)
    IN  \A k \in Positions(trace, "elementsChange")
                   \cup Positions(trace, "restartLayout") :
          TagsCurrent(onGraphChangedAt(merged, filterQuery, trace, k),
                      filterQuery)
\* C26: a condensedLayout call that returns restarts the layout exactly
\* once, after the synthesized edges are committed; the merge of those
\* edges runs no recomputation pass, and the removal step leaves no other
\* layout restart behind, immediate or debounced.
C26_OneLayoutRestart ==
  Called("condensedLayout") /\ last.result = "ok" =>
    LET adds == Positions(last.log, "add")
        restarts == Positions(last.log, "restartLayout")
    IN  /\ Cardinality(adds) = 1
        /\ Cardinality(restarts) = 1
        /\ \A r \in restarts : \A a \in adds : a < r
        /\ \A p \in Positions(last.log, "onGraphChanged") : \A a \in adds : p < a
        /\ Positions(last.log, "debouncedRestartLayout") = {}

\* C26 (the immediate restart): a condensedLayout call that returns
\* restarts the layout at once exactly one time, after the synthesized
\* edges are committed, and the merge of those edges runs no pass.
C26_OneImmediateRestart ==
  Called("condensedLayout") /\ last.result = "ok" =>
    LET adds == Positions(last.log, "add")
        restarts == Positions(last.log, "restartLayout")
    IN  /\ Cardinality(adds) = 1
        /\ Cardinality(restarts) = 1
        /\ \A r \in restarts : \A a \in adds : a < r
        /\ \A p \in Positions(last.log, "onGraphChanged") : \A a \in adds : p < a
\* ------------------------------------------------------------------ style groups taken away

\* The style groups that were configured when the view was opened: a second
\* local and a second global group have since been deleted in the settings.
EarlierLocalStyleGroups == LocalStyleGroups \o <<"class:note">>
EarlierGlobalStyleGroups == GlobalStyleGroups \o <<"class:tag-x">>

\* A view opened while the earlier groups were configured.
InitRestyled ==
  /\ links \in Range(Corpora)
  /\ \E docs \in {<<A>>, <<A, B>>} :
       elems = assignStyleGroups(onload(links, docs), EarlierLocalStyleGroups,
                                 EarlierGlobalStyleGroups)
  /\ batchDepth = 0
  /\ filterQuery = ""
  /\ pc = "idle"
  /\ x = NoFrame
  /\ last = NoCall
  /\ ops = 0
  /\ app = NoApp

\* The operations that merge and remove.
NextRestyled ==
  \/ MergeToGraph
  \/ RemoveNodes
  \/ Return

SpecRestyled == InitRestyled /\ [][NextRestyled]_vars

\* The call ran a recomputation pass as its last step.
PassRan ==
  \/ Called("mergeToGraph") /\ last.trig
  \/ Called("removeNodes")

\* C27 (configured groups): after a recomputation pass a node carries the
\* tag of a configured style group if and only if it matches the filter of
\* that group, whatever tags a merge carried over.
C27_ConfiguredGroupTagsExact ==
  PassRan =>
    \A n \in Nodes(elems) : \A c \in LocalClasses \cup GlobalClasses :
      Configured(c) => (c \in n.classes <=> MatchesGroup(c, n))

\* C27: after a recomputation pass a node carries a style-group tag if and
\* only if the group of that index is configured in that family and the
\* node matches its filter.
C27_GroupTagsExact ==
  PassRan =>
    \A n \in Nodes(elems) : \A c \in LocalClasses \cup GlobalClasses :
      c \in n.classes <=> (Configured(c) /\ MatchesGroup(c, n))

\* A merge with a pass after which B no longer matches the local group
\* whose tag it carried into the merge.
C27_Witness ==
  /\ Called("mergeToGraph") /\ last.trig
  /\ \E g \in Nodes(last.pre) :
       /\ g.id = toId(B)
       /\ "local-0" \in g.classes
       /\ \E i \in DOMAIN last.els : last.els[i].id = g.id
       /\ \E n \in Nodes(elems) : n.id = g.id /\ "local-0" \notin n.classes
\* ------------------------------------------------------------------ the same expand twice

\* The tags a merge carries over.
Sticky(n) == {c \in n.classes : c \in CLASSES \/ IsGroupClass(c)}

\* The caller of an expand that returned calls expand again at once, with
\* the same frontier and flags, the link index as it was: lines 424-438.
ExpandAgain ==
  /\ pc = "returned"
  /\ last.op = "expand" /\ last.result = "ok" /\ ~last.again
  /\ x' = [NoFrame EXCEPT !.op = "expand", !.ids = last.ids,
                          !.batch = last.batch, !.trig = last.trig,
                          !.inL = last.inL, !.outL = last.outL,
                          !.dv = last.dv, !.pre = elems,
                          !.depth = batchDepth, !.again = TRUE]
  /\ batchDepth' = IF last.batch THEN batchDepth + 1 ELSE batchDepth
  /\ elems' = AddClass(elems, last.ids, {CLASS_EXPANDED, CLASS_PROTECTED})
  /\ pc' = "neighbourhood"
  /\ last' = NoCall
  /\ UNCHANGED <<app, links, filterQuery, ops>>

\* Merges and expands, and every expand that returned repeated.
NextAgain ==
  \/ MergeToGraph
  \/ ExpandCall
  \/ ExpandNeighbourhood
  \/ ExpandNeighbourhood2
  \/ ExpandBuildEdges
  \/ ExpandAgain
  \/ Return

SpecAgain == Init /\ [][NextAgain]_vars

\* C28: a second expand of the same frontier with the same flags on an
\* unchanged corpus leaves the node ids, the edge ids and every node's
\* sticky tags as the first call left them.
C28_ExpandIdempotent ==
  Called("expand") /\ last.again =>
    /\ last.result = "ok"
    /\ Ids(Nodes(elems)) = Ids(Nodes(last.pre))
    /\ Ids(Edges(elems)) = Ids(Edges(last.pre))
    /\ \A n \in Nodes(elems) : \A g \in Nodes(last.pre) :
         n.id = g.id => Sticky(n) = Sticky(g)

\* The repetition of an expand of A on a graph that holds B, a pinned node
\* and an edge.
C28_Witness ==
  /\ Called("expand") /\ last.again
  /\ last.ids = {toId(A)}
  /\ toId(B) \in Ids(Nodes(elems))
  /\ \E n \in Nodes(elems) : CLASS_PINNED \in n.classes
  /\ Edges(elems) # {}
\* ------------------------------------------------------------------ batches

\* C29 (calls that return): when expand, mergeToGraph, removeNodes or
\* condensedLayout returns, the number of open batches is what it was
\* before the call.
C29_BatchBalancedOnReturn ==
  pc = "returned" /\ last.op \in {"expand", "mergeToGraph", "removeNodes",
                                  "condensedLayout"}
    /\ last.result # "error" => batchDepth = last.depth

\* C29: on every exit of expand, mergeToGraph and removeNodes, by return or
\* by error, the number of open batches is what it was before the call.
C29_BatchBalanced ==
  pc = "returned" /\ last.op \in {"expand", "mergeToGraph", "removeNodes"}
    => batchDepth = last.depth
\* ------------------------------------------------------------------ calls while an expand is suspended

\* A call of removeNodes(nodes) issued while the expand in flight awaits the
\* data store, on nodes among which is one of its frontier.
RemoveNodesDuring ==
  /\ pc \in {"neighbourhood", "neighbourhood2", "buildEdges"}
  /\ x.cut = {}
  /\ \E T \in SUBSET Ids(Nodes(elems)) :
       /\ T \cap x.ids # {}
       /\ elems' = removeNodes(elems, T, filterQuery)
       /\ x' = [x EXCEPT !.cut = T, !.log = @ \o removeNodesTrace]
  /\ UNCHANGED <<app, links, batchDepth, filterQuery, pc, last, ops>>

NextConcurrent ==
  \/ ExpandCall
  \/ ExpandNeighbourhood
  \/ ExpandNeighbourhood2
  \/ ExpandBuildEdges
  \/ RemoveNodesDuring
  \/ Return

SpecConcurrent == Init /\ [][NextConcurrent]_vars

\* C30: when a removeNodes call on nodes that overlap the frontier was
\* issued while an expand was suspended and both have completed, every
\* frontier node in the graph carries expanded and protected, and so does
\* every node the removeNodes call removed that is in the graph again.
C30_NoInterleaving ==
  Called("expand") /\ last.result = "ok" /\ last.cut # {} =>
    \A n \in Nodes(elems) :
      n.id \in last.ids \cup last.cut =>
        {CLASS_EXPANDED, CLASS_PROTECTED} \subseteq n.classes
====
